---- MODULE Spec2Model ----
(***************************************************************************)
(* Project_BioDB: gene-expression signature -> CMap job -> candidate drugs *)
(* -> ChEMBL report.  The program is single-threaded; each stage is        *)
(* modelled as the sequence of its blocking steps.  Each stage has its own *)
(* specification (SpecMain, SpecSig, SpecExtract, SpecCmap, SpecReco)      *)
(* over the same variables; a stage that is not running keeps its          *)
(* variables at their idle values.                                         *)
(*                                                                         *)
(* Python values: None is the string "None"; a str is a TLA+ string where  *)
(* only its identity matters and a sequence of one-character strings where *)
(* the code looks inside it; a list or an insertion-ordered dict is a      *)
(* sequence.                                                               *)
(***************************************************************************)
EXTENDS Integers, Sequences, FiniteSets, TLC

VARIABLES
    pc,          \* position of the (single) thread of control
    exc,         \* the exception that ended the run, "none" while there is none
    events,      \* network requests, sleeps and file writes, in the order issued
    printed,     \* console messages that matter to a claim
    \* ---- cmap.py
    resp_code,   \* _request_cmap: response.status_code of the POST, 0 before it
    resp_body,   \* _request_cmap: the shape of the POST's JSON body
    job_id,      \* cmap_analysis: the value _request_cmap returned
    slept,       \* seconds spent in time.sleep so far
    statuses,    \* the status values the service has answered, in order
    standard_result, \* _get_cmap_result: the job record's download_url field
    out_fname,   \* _get_cmap_result: the local out_fname, "unbound" until assigned
    cmap_name,   \* cmap_analysis: its return value
    \* ---- recommendation.py
    brd_dict,    \* make_result: the candidates, in TAG order (keys 1..n)
    searches,    \* what the name search answered for each candidate so far
    results,     \* make_result: results, an ordered dict (sequence of entries)
    new_brd,     \* make_result: new_brd, the keys left of brd_dict.copy()
    sidx,        \* position of the similarity loop in new_brd
    report,      \* the file _save_to_file wrote, <<>> while there is none
    \* ---- Main.py, signiture.py
    label_lines, \* dataset_label.txt, a sequence of lines (each a sequence of characters)
    same,        \* args.same
    file_groups, \* extract_signiture: the keys of _read_col_file's dict, in order
    tie_order,   \* how this build's sort_values orders rows of equal padj
    res,         \* _signiture_analysis: the DESeq2 result table under analysis
    run1,        \* the lists a first call of _signiture_analysis(res) returned
    run2,        \* the lists a second call on the same table returned
    per_file,    \* per-file protocol: the lists each file's analysis returned
    up_gene,     \* _regularization_single_protocol: up_gene
    down_gene,   \* _regularization_single_protocol: down_gene
    signature,   \* extract_signiture: its return value, <<>> before it returns
    \* ---- cmap.py: _transfer_to_entrez
    up_genes,    \* the up-regulated gene symbols handed in
    down_genes,  \* the down-regulated gene symbols handed in
    entrez_ids,  \* the reference map, symbol -> Entrez id
    up_entrez,   \* the ids mapped so far for up_genes
    down_entrez, \* the ids mapped so far for down_genes
    eidx,        \* position of the running loop in its list
    entrez_log,  \* per gene handled: was the alias service asked, and its answer
    \* ---- analyze.py: get_drug_list
    summary,     \* pert_summary['df']: rows [id, brd, tag] in table order
    csn,         \* the parsed cs_*.gct: is it None, and the ids of its row metadata
    drug_list,   \* df1.index.to_list() after the filter, the sort and head(10)
    drug_dict    \* get_drug_list: the mapping built so far, in insertion order

cmapVars == <<resp_code, resp_body, job_id, slept, statuses, standard_result,
              out_fname, cmap_name>>

recoVars == <<brd_dict, searches, results, new_brd, sidx, report>>

mainVars == <<label_lines, same, file_groups>>

sigVars == <<tie_order, res, run1, run2, per_file, up_gene, down_gene, signature>>

entrezVars == <<up_genes, down_genes, entrez_ids, up_entrez, down_entrez, eidx,
                entrez_log>>

drugVars == <<summary, csn, drug_list, drug_dict>>

notCmap == <<recoVars, mainVars, sigVars, entrezVars, drugVars>>

notReco == <<cmapVars, mainVars, sigVars, entrezVars, drugVars>>

notMain == <<cmapVars, recoVars, sigVars, entrezVars, drugVars>>

notSig == <<cmapVars, recoVars, mainVars, entrezVars, drugVars>>

None == "None"

\* Python truthiness of a str-or-None value.
Truthy(v) == v # None /\ v # ""

Last(s) == s[Len(s)]

CountEv(kind) == Cardinality({i \in 1..Len(events) : events[i] = kind})

(***************************************************************************)
(* cmap.py                                                                 *)
(***************************************************************************)

\* Bound on the number of status requests explored (the loop itself has none).
MaxPolls == 4

\* time.sleep(180)
SleepSeconds == 180

\* The POST's status codes explored, and the codes _request_cmap accepts.
ResponseCodes == {200, 201, 202, 204, 400, 500}

\* Mutation: every 2xx code is taken for success.
AcceptedCodes_Any2xx == {200, 201, 202, 204}

AcceptedCodes == {200, 201, 202}

\* Shapes of the POST's JSON body: a job id, an empty one, no job_id key
\* (or no "result" key at all), and "result": null.
ResponseBodies == {"job", "emptyjob", "nojob", "nullresult"}

\* The "status" field of the job record: the two waiting values, completed,
\* a value the code does not know, and a record without the field.
StatusValues == {"submitted", "pending", "completed", "failed", None}

\* The "download_url" field of the job record.
DownloadUrls == {None, "", "//dl.clue.io/r.tar.gz", "https://dl.clue.io/r.tar.gz"}

\* data.get("result", {}).get("job_id")
JobIdOf(body) ==
    CASE body = "job" -> "J1"
      [] body = "emptyjob" -> ""
      [] OTHER -> None

\* _status: True for completed, False for submitted/pending, and the
\* function falls off its end (None) for anything else.
_status(status) ==
    IF status = "submitted" \/ status = "pending" THEN "False"
    ELSE IF status = "completed" THEN "True"
    ELSE None

\* Mutation: only an explicit False keeps the loop waiting.
StatusDone_NotFalse(status) == _status(status) # "False"

\* `if _status(...)`: only True is truthy.
StatusDone(status) == _status(status) = "True"

InitEntrezVars ==
    /\ up_genes = <<>>
    /\ down_genes = <<>>
    /\ entrez_ids = <<>>
    /\ up_entrez = <<>>
    /\ down_entrez = <<>>
    /\ eidx = 1
    /\ entrez_log = <<>>

InitDrugVars ==
    /\ summary = <<>>
    /\ csn = [is_none |-> TRUE, ids |-> {}]
    /\ drug_list = <<>>
    /\ drug_dict = <<>>

InitCmapVars ==
    /\ resp_code = 0
    /\ resp_body = "unset"
    /\ job_id = None
    /\ slept = 0
    /\ statuses = <<>>
    /\ standard_result = "unset"
    /\ out_fname = "unbound"
    /\ cmap_name = "unset"

\* _get_L1000_BING_genes: the cached file is used, or downloaded first;
\* raise_for_status raises on an HTTP error.
GetL1000 ==
    /\ UNCHANGED notCmap
    /\ pc = "cmap_analysis"
    /\ \E cached \in BOOLEAN, ok \in BOOLEAN :
          IF cached
          THEN /\ pc' = "transfer"
               /\ UNCHANGED <<exc, events>>
          ELSE IF ok
               THEN /\ events' = Append(events, "ref_download")
                    /\ pc' = "transfer"
                    /\ UNCHANGED exc
               ELSE /\ events' = events \o <<"ref_download", "error:ref_download">>
                    /\ pc' = "raised"
                    /\ exc' = "HTTPError"
    /\ UNCHANGED <<printed, cmapVars>>

\* _transfer_to_entrez, as far as the job life cycle sees it: some genes miss
\* the direct lookup and cost one alias request each; a response that is
\* not ok gives an empty list of alternates.
TransferToEntrez ==
    /\ UNCHANGED notCmap
    /\ pc = "transfer"
    /\ \E misses \in 0..1, ok \in BOOLEAN :
          events' = IF misses = 0 THEN events
                    ELSE IF ok THEN Append(events, "alias_lookup")
                    ELSE events \o <<"alias_lookup", "error:alias_lookup">>
    /\ pc' = "submit"
    /\ UNCHANGED <<exc, printed, cmapVars>>

\* _request_cmap followed by cmap_analysis's `if not job_id: raise`.
Submit ==
    /\ UNCHANGED notCmap
    /\ pc = "submit"
    /\ \E code \in ResponseCodes, body \in ResponseBodies :
          /\ events' = Append(events, "post")
          /\ resp_code' = code
          /\ resp_body' = body
          /\ IF code \in AcceptedCodes
             THEN IF body = "nullresult"
                  THEN \* None.get("job_id")
                       /\ job_id' = None
                       /\ pc' = "raised"
                       /\ exc' = "AttributeError"
                       /\ UNCHANGED printed
                  ELSE /\ job_id' = JobIdOf(body)
                       /\ UNCHANGED printed
                       /\ IF Truthy(JobIdOf(body))
                          THEN pc' = "poll" /\ UNCHANGED exc
                          ELSE pc' = "raised" /\ exc' = "ValueError"
             ELSE /\ job_id' = None
                  /\ printed' = printed \cup {"ERROR"}
                  /\ pc' = "raised"
                  /\ exc' = "ValueError"
    /\ UNCHANGED <<slept, statuses, standard_result, out_fname, cmap_name>>

\* One pass of `while True: if _status(job_id, api_key): break`.
StatusRequest ==
    /\ UNCHANGED notCmap
    /\ pc = "poll"
    /\ Len(statuses) < MaxPolls
    /\ \E s \in StatusValues :
          /\ statuses' = Append(statuses, s)
          /\ events' = Append(events, "status")
          /\ pc' = IF StatusDone(s) THEN "fetch" ELSE "sleep"
    /\ UNCHANGED <<exc, printed, resp_code, resp_body, job_id, slept,
                   standard_result, out_fname, cmap_name>>

\* Mutation: the loop polls again at once, without sleeping.
Sleep_Skipped ==
    /\ UNCHANGED notCmap
    /\ pc = "sleep"
    /\ pc' = "poll"
    /\ UNCHANGED <<exc, events, printed, cmapVars>>

\* time.sleep(180), then back to the top of the loop.
Sleep ==
    /\ UNCHANGED notCmap
    /\ pc = "sleep"
    /\ events' = Append(events, "sleep")
    /\ slept' = slept + SleepSeconds
    /\ pc' = "poll"
    /\ UNCHANGED <<exc, printed, resp_code, resp_body, job_id, statuses,
                   standard_result, out_fname, cmap_name>>

\* What the job-record request can answer on an HTTP error: a JSON body
\* without a download_url, or a body that is no JSON.
ErrorBodies == {"json", "text"}

\* The second GET of the job record and the branch on its download_url.  The
\* status code of the response is printed, not checked: resp.json() parses
\* whatever came.  The else branch prints and reaches `return out_fname`, a
\* local that only the if branch assigns.
FetchJobRecord ==
    /\ UNCHANGED notCmap
    /\ pc = "fetch"
    /\ \/ \E u \in DownloadUrls :
             /\ events' = Append(events, "job_fetch")
             /\ standard_result' = u
             /\ IF Truthy(u)
                THEN /\ pc' = "download"
                     /\ UNCHANGED <<exc, printed>>
                ELSE /\ printed' = printed \cup {"no download_url"}
                     /\ IF out_fname = "unbound"
                        THEN pc' = "raised" /\ exc' = "UnboundLocalError"
                        ELSE pc' = "returned" /\ UNCHANGED exc
       \/ \E body \in ErrorBodies :
             /\ events' = events \o <<"job_fetch", "error:job_fetch">>
             /\ pc' = "raised"
             /\ IF body = "text"
                THEN /\ exc' = "JSONDecodeError"
                     /\ UNCHANGED <<standard_result, printed>>
                ELSE /\ standard_result' = None
                     /\ printed' = printed \cup {"no download_url"}
                     /\ exc' = "UnboundLocalError"
    /\ cmap_name' = IF ~Truthy(standard_result') /\ out_fname # "unbound"
                    THEN out_fname ELSE cmap_name
    /\ UNCHANGED <<resp_code, resp_body, job_id, slept, statuses, out_fname>>

\* Mutation: the download goes on without raise_for_status.
DownloadArchive_Unchecked ==
    /\ UNCHANGED notCmap
    /\ pc = "download"
    /\ \E ok \in BOOLEAN :
          /\ events' = IF ok THEN events \o <<"archive_download", "archive_write">>
                       ELSE events \o <<"archive_download", "error:archive_download",
                                        "archive_write">>
          /\ out_fname' = "cmap_result_J1.tar.gz"
          /\ cmap_name' = "cmap_result_J1.tar.gz"
          /\ pc' = "returned"
          /\ UNCHANGED exc
    /\ UNCHANGED <<printed, resp_code, resp_body, job_id, slept, statuses,
                   standard_result>>

\* requests.get(download_url, stream=True); raise_for_status; write the file.
DownloadArchive ==
    /\ UNCHANGED notCmap
    /\ pc = "download"
    /\ \E ok \in BOOLEAN :
          IF ok
          THEN /\ events' = events \o <<"archive_download", "archive_write">>
               /\ out_fname' = "cmap_result_J1.tar.gz"
               /\ cmap_name' = "cmap_result_J1.tar.gz"
               /\ pc' = "returned"
               /\ UNCHANGED exc
          ELSE /\ events' = events \o <<"archive_download", "error:archive_download">>
               /\ pc' = "raised"
               /\ exc' = "HTTPError"
               /\ UNCHANGED <<out_fname, cmap_name>>
    /\ UNCHANGED <<printed, resp_code, resp_body, job_id, slept, statuses,
                   standard_result>>


(***************************************************************************)
(* recommendation.py                                                       *)
(***************************************************************************)

\* Bound on the number of candidates (get_drug_list hands over at most 10).
MaxCands == 3

NoMolecule == [kind |-> "none", chembl_id |-> None, smiles |-> None, max_phase |-> None]

SearchError == [kind |-> "error", chembl_id |-> None, smiles |-> None, max_phase |-> None]

\* molecules[0] of a name search that found something: two molecules with a
\* structure (one without a clinical phase) and one without a structure.
Molecules ==
    { [kind |-> "molecule", chembl_id |-> "X", smiles |-> "CCO", max_phase |-> "4.0"],
      [kind |-> "molecule", chembl_id |-> "Y", smiles |-> "CCN", max_phase |-> None],
      [kind |-> "molecule", chembl_id |-> "Z", smiles |-> None, max_phase |-> "0.0"] }

\* What requests.get + raise_for_status + json can give _chembl_from_pert_name.
SearchOutcomes == {NoMolecule, SearchError} \cup Molecules

\* _chembl_from_pert_name: None on a request error and on an empty molecule
\* list, otherwise the fields of molecules[0].
_chembl_from_pert_name(outcome) ==
    IF outcome.kind = "error" THEN NoMolecule
    ELSE IF outcome.kind = "none" THEN NoMolecule
    ELSE outcome

IsNone(temp) == temp.kind # "molecule"

\* A similar molecule: max_phase is a number, or unknown (None).
Sim(id, known, phase) == [chembl_id |-> id, phase_known |-> known, max_phase |-> phase]

\* What _similar_from_smile can return: None on a request error, or the parsed
\* list (empty; the molecule itself and one approved analog; analogs that
\* all fail the phase filter).
SimilarOutcomes ==
    { [is_none |-> TRUE, mols |-> <<>>],
      [is_none |-> FALSE, mols |-> <<>>],
      [is_none |-> FALSE, mols |-> <<Sim("X", TRUE, 4), Sim("W", TRUE, 3), Sim("Y", TRUE, 2)>>],
      [is_none |-> FALSE, mols |-> <<Sim("V", TRUE, 1), Sim("U", FALSE, 0)>>] }

Keys(rdict) == [i \in 1..Len(rdict) |-> rdict[i].key]

KeySet(rdict) == {rdict[i].key : i \in 1..Len(rdict)}

Remove(seq, x) == SelectSeq(seq, LAMBDA y : y # x)

\* Mutation: the identifier is compared with the previous entry only.
AlreadyClaimed_LastOnly(id, rdict) ==
    /\ Len(rdict) > 0
    /\ rdict[Len(rdict)].chembl_id = id

\* temp["chembl_id"] in [res['chembl_id'] for res in results.values()]
AlreadyClaimed(id, rdict) == \E i \in 1..Len(rdict) : rdict[i].chembl_id = id

\* results[brd] = temp; 'similar_molecules' is set by the second loop.
Entry(brd, temp) ==
    [key |-> brd, chembl_id |-> temp.chembl_id, smiles |-> temp.smiles,
     max_phase |-> temp.max_phase, sim_set |-> FALSE,
     similar_molecules |-> [is_none |-> TRUE, mols |-> <<>>]]

InitRecoVars ==
    /\ brd_dict = <<>>
    /\ searches = <<>>
    /\ results = <<>>
    /\ new_brd = <<>>
    /\ sidx = 1
    /\ report = <<>>

\* One pass of `for brd, info in brd_dict.items()`; the loop ends when every
\* candidate has been searched.
ResolveCandidate ==
    /\ pc = "resolve"
    /\ Len(searches) < Len(brd_dict)
    /\ \E outcome \in SearchOutcomes :
          LET brd == brd_dict[Len(searches) + 1]
              temp == _chembl_from_pert_name(outcome)
              last == Len(searches) + 1 = Len(brd_dict)
          IN  /\ searches' = Append(searches, outcome)
              /\ events' = IF outcome.kind = "error"
                           THEN events \o <<"name_search", "error:name_search">>
                           ELSE Append(events, "name_search")
              /\ printed' = IF outcome.kind = "error"
                            THEN printed \cup {"Error fetching data"} ELSE printed
              /\ IF IsNone(temp)
                 THEN UNCHANGED <<results, new_brd>>
                 ELSE IF AlreadyClaimed(temp.chembl_id, results)
                 THEN /\ new_brd' = Remove(new_brd, brd)
                      /\ UNCHANGED results
                 ELSE /\ results' = Append(results, Entry(brd, temp))
                      /\ UNCHANGED new_brd
              /\ pc' = IF last THEN "similar" ELSE "resolve"
    /\ UNCHANGED <<exc, brd_dict, sidx, report, notReco>>

\* Position of key in results, 0 when results has no such key.
IndexOf(key, rdict) ==
    IF \E i \in 1..Len(rdict) : rdict[i].key = key
    THEN CHOOSE i \in 1..Len(rdict) : rdict[i].key = key
    ELSE 0

\* One pass of `for key, _ in new_brd.items()`: results[key] raises KeyError
\* for a key results does not hold.
SimilarStep ==
    /\ pc = "similar"
    /\ sidx <= Len(new_brd)
    /\ LET key == new_brd[sidx]
           at == IndexOf(key, results)
       IN  IF at = 0
           THEN /\ pc' = "raised"
                /\ exc' = "KeyError"
                /\ UNCHANGED <<events, printed, results, sidx>>
           ELSE /\ \E sim \in SimilarOutcomes :
                     IF Truthy(results[at].smiles)
                     THEN /\ results' = [results EXCEPT ![at].sim_set = TRUE,
                                                        ![at].similar_molecules = sim]
                          /\ events' = IF sim.is_none
                                       THEN events \o <<"similarity_search",
                                                        "error:similarity_search">>
                                       ELSE Append(events, "similarity_search")
                          /\ printed' = IF sim.is_none
                                        THEN printed \cup {"Error fetching similar"}
                                        ELSE printed
                     ELSE /\ results' = [results EXCEPT ![at].sim_set = TRUE,
                                                        ![at].similar_molecules =
                                                            [is_none |-> TRUE, mols |-> <<>>]]
                          /\ UNCHANGED <<events, printed>>
                /\ sidx' = sidx + 1
                /\ UNCHANGED <<pc, exc>>
    /\ UNCHANGED <<brd_dict, searches, new_brd, report, notReco>>

\* The molecules both sections list under a candidate: not the candidate
\* itself, clinical phase known and at least 2.
Qualifying(val) ==
    SelectSeq(val.similar_molecules.mols,
              LAMBDA m : /\ m.chembl_id # val.chembl_id
                         /\ m.phase_known
                         /\ ~(m.max_phase < 2))

\* The <Abstract> block of one entry: header line, then the tree.
AbstractBlock(idx, val) ==
    [idx |-> idx, key |-> val.key,
     tree |-> IF val.similar_molecules.is_none THEN <<>>
              ELSE [j \in 1..Len(Qualifying(val)) |-> Qualifying(val)[j].chembl_id]]

\* The <Detailed Information> block of one entry; a candidate without a
\* clinical phase ends after its own lines (`continue`).
DetailBlock(idx, val) ==
    [idx |-> idx, key |-> val.key,
     tree |-> IF val.max_phase = None THEN <<>>
              ELSE IF val.similar_molecules.is_none THEN <<>>
              ELSE [j \in 1..Len(Qualifying(val)) |-> Qualifying(val)[j].chembl_id]]

\* Mutation: the detail section leaves out a candidate without a clinical phase.
_save_to_file_SkipNoPhase(rdict, brd) ==
    LET phased == SelectSeq(rdict, LAMBDA val : val.max_phase # None)
    IN  [abstract |-> [i \in 1..Len(rdict) |-> AbstractBlock(i, rdict[i])],
         detail |-> [i \in 1..Len(phased) |-> DetailBlock(i, phased[i])]]

\* _save_to_file: both sections enumerate results.items().
_save_to_file(rdict, brd) ==
    [abstract |-> [i \in 1..Len(rdict) |-> AbstractBlock(i, rdict[i])],
     detail |-> [i \in 1..Len(rdict) |-> DetailBlock(i, rdict[i])]]

\* The end of the second loop and _save_to_file(results, new_brd, work_path).
SaveToFile ==
    /\ pc = "similar"
    /\ sidx > Len(new_brd)
    /\ report' = <<_save_to_file(results, new_brd)>>
    /\ events' = Append(events, "report_write")
    /\ pc' = "done"
    /\ UNCHANGED <<exc, printed, brd_dict, searches, results, new_brd, sidx, notReco>>

(***************************************************************************)
(* Main.py: the label check of main, and signiture.py: _read_col_file      *)
(***************************************************************************)

\* Bound on the number of lines of dataset_label.txt.
MaxLines == 3

\* The lines explored: blank, blanks only, a comment, an indented comment,
\* the headers of two files, an indented header, a header without a name,
\* and a line of group tags.
LabelLineSet ==
    { <<>>,
      <<" ">>,
      <<"#", "c">>,
      <<" ", "#", "c">>,
      <<">", ">", "f">>,
      <<">", ">", "g">>,
      <<" ", ">", ">", "f">>,
      <<">", ">">>,
      <<"m", ",", "w">> }

RECURSIVE SeqsUpTo(_, _)
SeqsUpTo(S, n) ==
    IF n = 0 THEN {<<>>}
    ELSE LET shorter == SeqsUpTo(S, n - 1)
         IN  shorter \cup {Append(f, x) : f \in {g \in shorter : Len(g) = n - 1}, x \in S}

\* str.startswith
StartsWith(line, prefix) ==
    /\ Len(line) >= Len(prefix)
    /\ SubSeq(line, 1, Len(prefix)) = prefix

RECURSIVE LStrip(_)
LStrip(line) ==
    IF line # <<>> /\ Head(line) = " " THEN LStrip(Tail(line)) ELSE line

RECURSIVE RStrip(_)
RStrip(line) ==
    IF line # <<>> /\ line[Len(line)] = " "
    THEN RStrip(SubSeq(line, 1, Len(line) - 1))
    ELSE line

\* str.strip (the line terminator is not part of the modelled line)
Strip(line) == RStrip(LStrip(line))

\* line.replace('>>', ''): every occurrence goes, left to right.
RECURSIVE ReplaceGtGt(_)
ReplaceGtGt(line) ==
    IF line = <<>> THEN <<>>
    ELSE IF StartsWith(line, <<">", ">">>) THEN ReplaceGtGt(SubSeq(line, 3, Len(line)))
    ELSE <<Head(line)>> \o ReplaceGtGt(Tail(line))

\* The label check of main from line i on: a line starting with '#' is
\* skipped, one starting with '>>' ends the loop, any other line raises;
\* at the end of the file the loop just ends.
RECURSIVE ValidateFrom(_, _)
ValidateFrom(lines, i) ==
    IF i > Len(lines) THEN "ok"
    ELSE IF StartsWith(lines[i], <<"#">>) THEN ValidateFrom(lines, i + 1)
    ELSE IF StartsWith(lines[i], <<">", ">">>) THEN "ok"
    ELSE "ValueError"

ValidateLabel(lines) == ValidateFrom(lines, 1)

\* _read_col_file from line i on, with current_key and the keys of
\* file_groups so far; a key is entered by the first data line under it.
RECURSIVE ReadColFrom(_, _, _, _)
ReadColFrom(lines, i, current_key, keys) ==
    IF i > Len(lines) THEN keys
    ELSE LET line == Strip(lines[i]) IN
         IF line = <<>> THEN ReadColFrom(lines, i + 1, current_key, keys)
         ELSE IF StartsWith(line, <<"#">>) THEN ReadColFrom(lines, i + 1, current_key, keys)
         ELSE IF StartsWith(line, <<">", ">">>)
              THEN ReadColFrom(lines, i + 1, <<Strip(ReplaceGtGt(line))>>, keys)
         ELSE IF current_key # <<>> /\ current_key[1] # <<>>
              THEN ReadColFrom(lines, i + 1, current_key,
                               IF \E k \in 1..Len(keys) : keys[k] = current_key[1]
                               THEN keys ELSE Append(keys, current_key[1]))
         ELSE ReadColFrom(lines, i + 1, current_key, keys)

\* current_key is None (<<>>) or a name (<<name>>).
_read_col_file(lines) == ReadColFrom(lines, 1, <<>>, <<>>)

InitMainVars ==
    /\ label_lines = <<>>
    /\ same = FALSE
    /\ file_groups = <<>>

\* Main.py lines 45-52.
MainValidate ==
    /\ pc = "validate"
    /\ IF ValidateLabel(label_lines) = "ok"
       THEN pc' = "extract_signiture" /\ UNCHANGED exc
       ELSE pc' = "raised" /\ exc' = "ValueError: no '>>' line"
    /\ UNCHANGED <<events, printed, mainVars, notMain>>

\* extract_signiture as main sees it: the labels are read; the combined
\* protocol hands pd.concat the list of frames, which raises on an empty
\* list; the statistics either raise or give a result; the per-file
\* protocol loops over file_groups and returns two lists (empty ones when
\* there is no file).
ExtractSignature ==
    /\ pc = "extract_signiture"
    /\ file_groups' = _read_col_file(label_lines)
    /\ IF same /\ file_groups' = <<>>
       THEN pc' = "raised" /\ exc' = "ValueError: No objects to concatenate"
       ELSE IF file_groups' = <<>>
       THEN pc' = "cmap_analysis" /\ UNCHANGED exc
       ELSE \E ok \in BOOLEAN :
               IF ok
               THEN pc' = "cmap_analysis" /\ UNCHANGED exc
               ELSE pc' = "raised" /\ exc' = "Exception: statistics"
    /\ UNCHANGED <<events, printed, label_lines, same, notMain>>

(***************************************************************************)
(* signiture.py: _signiture_analysis and extract_signiture                 *)
(*                                                                         *)
(* A row of the result table is [gene, lfc, padj, padj_nan]: lfc is the    *)
(* sign of log2FoldChange (a NaN compares like 0: neither > 0 nor < 0),    *)
(* padj is in hundredths, and padj_nan marks an undefined padj.            *)
(***************************************************************************)

\* N = 30
N == 30

\* padj < 0.1, in hundredths
PadjCut == 10

\* Bound on the rows of a result table handed to _signiture_analysis.
MaxRows == 36

\* Bound on the number of labelled files of the per-file protocol.
MaxFiles == 4

Min(a, b) == IF a < b THEN a ELSE b

Reverse(seq) == [i \in 1..Len(seq) |-> seq[Len(seq) + 1 - i]]

Count(seq, x) == Cardinality({i \in 1..Len(seq) : seq[i] = x})

\* sort_values uses an unstable sort: rows of equal padj come out in an
\* order the build decides.  Two outcomes are explored: original order
\* kept, and original order reversed.
TieOrders == {"kept", "reversed"}

RECURSIVE InsertByPadj(_, _)
InsertByPadj(sorted, r) ==
    IF sorted = <<>> THEN <<r>>
    ELSE IF r.padj < Head(sorted).padj THEN <<r>> \o sorted
    ELSE <<Head(sorted)>> \o InsertByPadj(Tail(sorted), r)

RECURSIVE InsertionSort(_)
InsertionSort(rows) ==
    IF rows = <<>> THEN <<>>
    ELSE InsertByPadj(InsertionSort(SubSeq(rows, 1, Len(rows) - 1)), rows[Len(rows)])

\* df.sort_values("padj", ascending=True): ascending padj, rows with an
\* undefined padj last (na_position='last', in their original order).
SortByPadj(rows, ties) ==
    LET known == SelectSeq(rows, LAMBDA r : ~r.padj_nan)
        nans == SelectSeq(rows, LAMBDA r : r.padj_nan)
    IN  InsertionSort(IF ties = "kept" THEN known ELSE Reverse(known)) \o nans

\* res[res["padj"] < 0.1]: a comparison with NaN is False.
Significant(rows) == SelectSeq(rows, LAMBDA r : ~r.padj_nan /\ r.padj < PadjCut)

\* Mutation: the comparison with 0 is not strict.
Direction_Inclusive(rows, dir) == SelectSeq(rows, LAMBDA r : r.lfc = dir \/ r.lfc = 0)

\* df[df["log2FoldChange"] > 0] (dir = 1) and df[df["log2FoldChange"] < 0] (dir = -1)
Direction(rows, dir) == SelectSeq(rows, LAMBDA r : r.lfc = dir)

\* Mutation: the slice is forgotten.
TopN_All(rows) == rows

\* df[:N]
TopN(rows) == SubSeq(rows, 1, Min(N, Len(rows)))

\* df.index.tolist()
Genes(rows) == [i \in 1..Len(rows) |-> rows[i].gene]

\* One direction of _signiture_analysis: the significant rows of that
\* direction, sorted; if fewer than N, the rows of that direction of the
\* whole table instead; the first N either way.
SignatureOf(table, dir, ties) ==
    LET sig == SortByPadj(Direction(Significant(table), dir), ties)
    IN  IF Len(sig) < N
        THEN Genes(TopN(SortByPadj(Direction(table, dir), ties)))
        ELSE Genes(TopN(sig))

_signiture_analysis(table, ties) ==
    [up |-> SignatureOf(table, 1, ties), down |-> SignatureOf(table, -1, ties)]

\* The direction patterns of the tables explored: all up, all down,
\* alternating, every eighth gene down, and every third gene unchanged.
DirPatterns == {"up", "down", "alt", "up8", "zero3"}

DirOf(pat, i) ==
    CASE pat = "up" -> 1
      [] pat = "down" -> -1
      [] pat = "alt" -> IF i % 2 = 1 THEN 1 ELSE -1
      [] pat = "up8" -> IF i % 8 = 0 THEN -1 ELSE 1
      [] OTHER -> IF i % 3 = 0 THEN 0 ELSE IF i % 3 = 1 THEN 1 ELSE -1

\* A result table of n genes (the index is unique) whose first nsig genes
\* are significant, with repeated padj values; of the others every fourth
\* has no padj.  rev stores the rows in the opposite order.
DEGTable(n, nsig, pat, rev) ==
    LET rows == [i \in 1..n |->
                   [gene |-> i, lfc |-> DirOf(pat, i),
                    padj |-> IF i <= nsig THEN i % PadjCut
                             ELSE IF i % 4 = 0 THEN 0
                             ELSE PadjCut + (i % 5) * 20,
                    padj_nan |-> i > nsig /\ i % 4 = 0]]
    IN  IF rev THEN Reverse(rows) ELSE rows

InitSigVars ==
    /\ tie_order = "kept"
    /\ res = <<>>
    /\ run1 = <<>>
    /\ run2 = <<>>
    /\ per_file = <<>>
    /\ up_gene = <<>>
    /\ down_gene = <<>>
    /\ signature = <<>>

\* A call of _signiture_analysis(res).
FirstRun ==
    /\ pc = "analysis"
    /\ run1' = <<_signiture_analysis(res, tie_order)>>
    /\ pc' = "again"
    /\ UNCHANGED <<exc, events, printed, tie_order, res, run2, per_file, up_gene,
                   down_gene, signature, notSig>>

\* A second call on the same table.
SecondRun ==
    /\ pc = "again"
    /\ run2' = <<_signiture_analysis(res, tie_order)>>
    /\ pc' = "analysed"
    /\ UNCHANGED <<exc, events, printed, tie_order, res, run1, per_file, up_gene,
                   down_gene, signature, notSig>>

\* The genes of the small tables of the per-file protocol.
SmallGenes == {1, 2}

Row(g, dir, p) == [gene |-> g, lfc |-> dir, padj |-> p, padj_nan |-> FALSE]

\* The result tables explored for one file: each gene is absent,
\* significantly up, or down without significance.
SmallTables ==
    { SelectSeq(<<r1, r2>>, LAMBDA r : r.lfc # 0) :
        r1 \in {Row(1, 0, 0), Row(1, 1, 1), Row(1, -1, 50)},
        r2 \in {Row(2, 0, 0), Row(2, 1, 1), Row(2, -1, 50)} }

\* The name of the i-th labelled file: "f", "ff", ...
FileKey(i) == [j \in 1..i |-> "f"]

\* Mutation: a strict majority is asked for.
VoteKeep_Strict(gene_list, nfiles) ==
    SelectSeq(gene_list, LAMBDA g : 2 * Count(gene_list, g) > nfiles)

\* [g for g in up_gene if up_gene.count(g) >= len(file_groups) / 2]
\* (true division: count >= n / 2 iff 2 * count >= n)
VoteKeep(gene_list, nfiles) ==
    SelectSeq(gene_list, LAMBDA g : 2 * Count(gene_list, g) >= nfiles)

\* extract_signiture, combined protocol: pd.concat raises on no file;
\* otherwise one analysis of the combined result.
CombinedProtocol ==
    /\ pc = "protocol"
    /\ same
    /\ IF file_groups = <<>>
       THEN /\ pc' = "raised"
            /\ exc' = "ValueError: No objects to concatenate"
            /\ UNCHANGED <<res, signature>>
       ELSE \E table \in SmallTables :
               /\ res' = table
               /\ signature' = <<_signiture_analysis(table, tie_order)>>
               /\ pc' = "extracted"
               /\ UNCHANGED exc
    /\ UNCHANGED <<events, printed, tie_order, run1, run2, per_file, up_gene,
                   down_gene, notSig>>

\* One pass of the loop of _regularization_single_protocol: the file's
\* result is analysed and its lists are appended.
PerFileStep ==
    /\ pc = "protocol"
    /\ ~same
    /\ Len(per_file) < Len(file_groups)
    /\ \E table \in SmallTables :
          LET lists == _signiture_analysis(table, tie_order)
          IN  /\ res' = table
              /\ per_file' = Append(per_file, lists)
              /\ up_gene' = up_gene \o lists.up
              /\ down_gene' = down_gene \o lists.down
    /\ UNCHANGED <<pc, exc, events, printed, tie_order, run1, run2, signature,
                   notSig>>

\* The end of the loop and the two list comprehensions of extract_signiture.
Reconcile ==
    /\ pc = "protocol"
    /\ ~same
    /\ Len(per_file) = Len(file_groups)
    /\ signature' = <<[up |-> VoteKeep(up_gene, Len(file_groups)),
                       down |-> VoteKeep(down_gene, Len(file_groups))]>>
    /\ pc' = "extracted"
    /\ UNCHANGED <<exc, events, printed, tie_order, res, run1, run2, per_file,
                   up_gene, down_gene, notSig>>

vars == <<pc, exc, events, printed, cmapVars, recoVars, mainVars, sigVars,
          entrezVars, drugVars>>

InitCmap ==
    /\ pc = "cmap_analysis"
    /\ exc = "none"
    /\ events = <<>>
    /\ printed = {}
    /\ InitCmapVars
    /\ InitEntrezVars
    /\ InitDrugVars
    /\ InitRecoVars
    /\ InitMainVars
    /\ InitSigVars

NextCmap ==
    \/ GetL1000
    \/ TransferToEntrez
    \/ Submit
    \/ StatusRequest
    \/ Sleep
    \/ FetchJobRecord
    \/ DownloadArchive

SpecCmap == InitCmap /\ [][NextCmap]_vars

\* make_result(brd_dict, work_path) is entered with up to MaxCands candidates;
\* when there is none, both loops are empty.
InitReco ==
    /\ \E n \in 0..MaxCands :
          /\ brd_dict = [i \in 1..n |-> i]
          /\ new_brd = [i \in 1..n |-> i]
          /\ pc = IF n = 0 THEN "similar" ELSE "resolve"
    /\ exc = "none"
    /\ events = <<>>
    /\ printed = {}
    /\ searches = <<>>
    /\ results = <<>>
    /\ sidx = 1
    /\ report = <<>>
    /\ InitCmapVars
    /\ InitEntrezVars
    /\ InitDrugVars
    /\ InitMainVars
    /\ InitSigVars

NextReco ==
    \/ ResolveCandidate
    \/ SimilarStep
    \/ SaveToFile

SpecReco == InitReco /\ [][NextReco]_vars

(***************************************************************************)
(* Claims about the label check, checked under SpecMain                    *)
(***************************************************************************)

IsComment(line) == StartsWith(line, <<"#">>)

IsBlank(line) == Strip(line) = <<>>

IsHeader(line) == StartsWith(line, <<">", ">">>)

ContentLines == {i \in 1..Len(label_lines) :
                    ~IsComment(label_lines[i]) /\ ~IsBlank(label_lines[i])}

FirstContentLine == CHOOSE i \in ContentLines : \A j \in ContentLines : i <= j

ValidationDone == pc # "validate"

ValidationRaised == pc = "raised" /\ exc = "ValueError: no '>>' line"

\* C6: the label check raises iff the first line that is neither a comment
\* nor blank is not a `>>` header; a header preceded only by comments and
\* blank lines passes.
C6_ValidationIff ==
    (ValidationDone /\ ContentLines # {}) =>
        (ValidationRaised <=> ~IsHeader(label_lines[FirstContentLine]))

\* No line of the file, stripped, is a `>>` header.
NoSectionMarker ==
    \A i \in 1..Len(label_lines) : ~IsHeader(Strip(label_lines[i]))

\* C7: a label file without any `>>` marker fails in the label check, before
\* signature extraction starts and before any network request.
C7_NoMarkerFailsFirst ==
    (NoSectionMarker /\ ValidationDone) =>
        /\ ValidationRaised
        /\ events = <<>>

(***************************************************************************)
(* Claims about signiture.py, checked under SpecExtract and SpecSig        *)
(***************************************************************************)

NoRepeat(seq) == \A i, j \in 1..Len(seq) : i # j => seq[i] # seq[j]

Members(seq) == {seq[i] : i \in 1..Len(seq)}

\* C8: under either protocol and for any number of files, the up list and
\* the down list extract_signiture returns each hold no gene twice and at
\* most 30 genes.
C8_SignatureCapped ==
    pc = "extracted" =>
        /\ NoRepeat(signature[1].up)
        /\ NoRepeat(signature[1].down)
        /\ Len(signature[1].up) <= 30
        /\ Len(signature[1].down) <= 30

RECURSIVE Occurrences(_, _, _)
Occurrences(g, dir, n) ==
    IF n = 0 THEN 0
    ELSE Occurrences(g, dir, n - 1)
         + Count(IF dir = 1 THEN per_file[n].up ELSE per_file[n].down, g)

CeilHalf(n) == (n + 1) \div 2

\* C10 as stated: in the per-file protocol a gene is in the final up (down)
\* list iff its occurrences over all per-file up (down) lists number at
\* least ceil(numFiles / 2).
C10_MajorityVoteAsStated ==
    (pc = "extracted" /\ ~same) =>
        \A g \in SmallGenes :
            /\ g \in Members(signature[1].up)
                  <=> Occurrences(g, 1, Len(per_file)) >= CeilHalf(Len(file_groups))
            /\ g \in Members(signature[1].down)
                  <=> Occurrences(g, -1, Len(per_file)) >= CeilHalf(Len(file_groups))

\* C10, amended: in the per-file protocol a gene is in the final up (down)
\* list iff it occurs in some per-file up (down) list and its occurrences
\* number at least ceil(numFiles / 2).
C10_MajorityVote ==
    (pc = "extracted" /\ ~same) =>
        \A g \in SmallGenes :
            /\ g \in Members(signature[1].up)
                  <=> /\ Occurrences(g, 1, Len(per_file)) >= 1
                      /\ Occurrences(g, 1, Len(per_file)) >= CeilHalf(Len(file_groups))
            /\ g \in Members(signature[1].down)
                  <=> /\ Occurrences(g, -1, Len(per_file)) >= 1
                      /\ Occurrences(g, -1, Len(per_file)) >= CeilHalf(Len(file_groups))

\* Four files: gene 1 is in exactly two up lists and retained, gene 2 in
\* exactly one and not retained.
C10_Witness ==
    /\ pc = "extracted"
    /\ ~same
    /\ Len(file_groups) = 4
    /\ Occurrences(1, 1, Len(per_file)) = 2
    /\ Occurrences(2, 1, Len(per_file)) = 1
    /\ 1 \in Members(signature[1].up)
    /\ 2 \notin Members(signature[1].up)

(***************************************************************************)
(* Claims about recommendation.py, checked under SpecReco                  *)
(***************************************************************************)

\* The candidates the name search found no molecule for.
Unmatched == {i \in 1..Len(searches) : searches[i].kind = "none"}

ReportKeys(section) == {section[i].key : i \in 1..Len(section)}

\* C4: a candidate whose name search returns no molecule is dropped:
\* make_result does not raise, goes on through the similarity phase and
\* writes the report, and the candidate is in neither report section.
C4_UnmatchedDropped ==
    Unmatched # {} =>
        /\ pc # "raised"
        /\ exc = "none"
        /\ pc = "done" =>
              /\ Len(report) = 1
              /\ \A i \in Unmatched :
                    /\ i \notin ReportKeys(report[1].abstract)
                    /\ i \notin ReportKeys(report[1].detail)

Resolved(i) == searches[i].kind = "molecule"

\* The candidates retained among the first n searched, first seen wins.
RECURSIVE Retained(_)
Retained(n) ==
    IF n = 0 THEN {}
    ELSE LET before == Retained(n - 1)
         IN  IF /\ Resolved(n)
                /\ \A j \in before : searches[j].chembl_id # searches[n].chembl_id
             THEN before \cup {n}
             ELSE before

\* C5: a candidate is retained iff its search resolved and no earlier
\* retained candidate resolved to the same identifier; the retained
\* candidates have pairwise distinct identifiers and keep their order.
C5_FirstSeenWins ==
    /\ KeySet(results) = Retained(Len(searches))
    /\ \A i \in 1..Len(results) :
          results[i].chembl_id = searches[results[i].key].chembl_id
    /\ \A i, j \in 1..Len(results) :
          i < j => /\ results[i].key < results[j].key
                   /\ results[i].chembl_id # results[j].chembl_id

\* Candidates 1, 2, 3 resolved to X, Y, X: exactly 1 and 2 are retained.
C5_Witness ==
    /\ Len(searches) = 3
    /\ searches[1].chembl_id = "X"
    /\ searches[2].chembl_id = "Y"
    /\ searches[3].chembl_id = "X"
    /\ Keys(results) = <<1, 2>>
    /\ pc = "done"

\* main() from the label check to the submission of the job.
InitMain ==
    /\ pc = "validate"
    /\ exc = "none"
    /\ events = <<>>
    /\ printed = {}
    /\ label_lines \in SeqsUpTo(LabelLineSet, MaxLines)
    /\ same \in BOOLEAN
    /\ file_groups = <<>>
    /\ InitCmapVars
    /\ InitEntrezVars
    /\ InitDrugVars
    /\ InitRecoVars
    /\ InitSigVars

NextMain ==
    \/ MainValidate
    \/ ExtractSignature
    \/ GetL1000
    \/ TransferToEntrez
    \/ Submit

SpecMain == InitMain /\ [][NextMain]_vars

\* _signiture_analysis applied twice to one result table.
InitSig ==
    /\ pc = "analysis"
    /\ exc = "none"
    /\ events = <<>>
    /\ printed = {}
    /\ tie_order \in TieOrders
    /\ \E n \in 0..MaxRows : \E nsig \in 0..n : \E pat \in DirPatterns : \E rev \in BOOLEAN :
          res = DEGTable(n, nsig, pat, rev)
    /\ run1 = <<>>
    /\ run2 = <<>>
    /\ per_file = <<>>
    /\ up_gene = <<>>
    /\ down_gene = <<>>
    /\ signature = <<>>
    /\ InitCmapVars
    /\ InitEntrezVars
    /\ InitDrugVars
    /\ InitRecoVars
    /\ InitMainVars

NextSig ==
    \/ FirstRun
    \/ SecondRun

SpecSig == InitSig /\ [][NextSig]_vars

\* extract_signiture(same, path) once _read_col_file has returned the
\* labelled files.
InitExtract ==
    /\ pc = "protocol"
    /\ exc = "none"
    /\ events = <<>>
    /\ printed = {}
    /\ tie_order \in TieOrders
    /\ same \in BOOLEAN
    /\ \E n \in 0..MaxFiles : file_groups = [i \in 1..n |-> FileKey(i)]
    /\ label_lines = <<>>
    /\ res = <<>>
    /\ run1 = <<>>
    /\ run2 = <<>>
    /\ per_file = <<>>
    /\ up_gene = <<>>
    /\ down_gene = <<>>
    /\ signature = <<>>
    /\ InitCmapVars
    /\ InitEntrezVars
    /\ InitDrugVars
    /\ InitRecoVars

NextExtract ==
    \/ CombinedProtocol
    \/ PerFileStep
    \/ Reconcile

SpecExtract == InitExtract /\ [][NextExtract]_vars

(***************************************************************************)
(* Claims about cmap.py, checked under SpecCmap                            *)
(***************************************************************************)

Waiting == {"submitted", "pending"}

\* The status answers so far are k waiting values followed by "completed".
WaitThenCompleted ==
    /\ Len(statuses) >= 1
    /\ Last(statuses) = "completed"
    /\ \A i \in 1..(Len(statuses) - 1) : statuses[i] \in Waiting

\* The requests and sleeps of _get_cmap_result, in the order issued.
PollTrace ==
    SelectSeq(events, LAMBDA e : e \in {"status", "sleep", "job_fetch",
                                        "archive_download", "archive_write"})

\* status, sleep, status, sleep, ..., status: k sleeps between k+1 requests.
ExpectedPolls(k) ==
    [i \in 1..(2 * k + 1) |-> IF i % 2 = 1 THEN "status" ELSE "sleep"]

\* C1: when the service answers k waiting statuses (submitted or pending)
\* and then completed, the loop is left after exactly k+1 status requests
\* and k sleeps of 180 seconds, one after each waiting status, and the
\* retrieval request comes only after them.
C1_PollCounts ==
    WaitThenCompleted =>
        LET k == Len(statuses) - 1 IN
        /\ pc \notin {"poll", "sleep"}
        /\ CountEv("status") = k + 1
        /\ CountEv("sleep") = k
        /\ slept = 180 * k
        /\ Len(PollTrace) >= 2 * k + 1
        /\ SubSeq(PollTrace, 1, 2 * k + 1) = ExpectedPolls(k)
        /\ \A i \in (2 * k + 2)..Len(PollTrace) :
              PollTrace[i] \notin {"status", "sleep"}

\* [pending, submitted, completed] was answered and the retrieval request
\* has been issued.
C1_Witness ==
    /\ statuses = <<"pending", "submitted", "completed">>
    /\ CountEv("job_fetch") = 1

PostAnswered == resp_code # 0

SubmissionOk == resp_code \in {200, 201, 202} /\ resp_body = "job"

\* C2: the job counts as submitted only for a 200/201/202 response that
\* carries a job_id; after any other response cmap_analysis has raised and
\* the run issues no status request, sleep, retrieval or download.
C2_SubmitOrAbort ==
    PostAnswered =>
        /\ (pc \in {"poll", "sleep", "fetch", "download", "returned"}
               => SubmissionOk)
        /\ ~SubmissionOk =>
              /\ pc = "raised"
              /\ exc # "none"
              /\ PollTrace = <<>>
              /\ slept = 0
        /\ SubmissionOk => job_id = "J1"

\* A success code whose body has no job_id ended the run.
C2_Witness ==
    /\ resp_code = 201
    /\ resp_body = "nojob"
    /\ pc = "raised"

\* C3: a job record without a download URL (absent or empty) makes
\* _get_cmap_result log the fact, write no archive and return normally.
C3_MissingUrlReturns ==
    standard_result \in {None, ""} =>
        /\ "no download_url" \in printed
        /\ CountEv("archive_write") = 0
        /\ exc = "none"
        /\ pc = "returned"

(***************************************************************************)
(* cmap.py: _find_another_symbol and _transfer_to_entrez                   *)
(***************************************************************************)

\* Bound on the length of each gene list handed to _transfer_to_entrez.
MaxGenesIn == 2

\* The gene symbols of the signature.
Symbols == {"A", "B", "C"}

\* The reference maps explored (keys are symbols of the reference panel).
RefMaps ==
    { [g \in {"A", "B"} |-> IF g = "A" THEN "1" ELSE "2"],
      [g \in {"B"} |-> "2"] }

\* What the alias service can answer: an HTTP error, no document, and
\* a document whose prev_symbol + alias_symbol lists hold an empty name,
\* a name outside the panel and two names of the panel.
AliasOutcomes ==
    { [ok |-> FALSE, alts |-> <<>>],
      [ok |-> TRUE, alts |-> <<>>],
      [ok |-> TRUE, alts |-> <<"", "D", "B", "A">>] }

\* _find_another_symbol: the alternates of the first document, and an
\* empty list when the response is not ok.
_find_another_symbol(answer) == IF answer.ok THEN answer.alts ELSE <<>>

\* Mutation: the last alternate of the panel is taken (the loop misses its break).
FirstMatch_Last(alts, ids) ==
    LET hits == SelectSeq(alts, LAMBDA a : a # "" /\ a \in DOMAIN ids)
    IN  IF hits = <<>> THEN <<>> ELSE <<ids[hits[Len(hits)]]>>

\* for alt_symbol in alt_symbols: if alt_symbol and alt_symbol in
\* entrez_ids: append; break -- the ids appended: none or one.
RECURSIVE FirstMatch(_, _)
FirstMatch(alts, ids) ==
    IF alts = <<>> THEN <<>>
    ELSE IF Head(alts) # "" /\ Head(alts) \in DOMAIN ids THEN <<ids[Head(alts)]>>
    ELSE FirstMatch(Tail(alts), ids)

notEntrez == <<cmapVars, recoVars, mainVars, sigVars, drugVars>>

\* One pass of `for up in up_genes`.
MapUpGene ==
    /\ pc = "transfer_up"
    /\ eidx <= Len(up_genes)
    /\ LET up == up_genes[eidx] IN
       IF up \in DOMAIN entrez_ids
       THEN /\ up_entrez' = Append(up_entrez, entrez_ids[up])
            /\ entrez_log' = Append(entrez_log, [gene |-> up, asked |-> FALSE, alts |-> <<>>])
            /\ UNCHANGED events
       ELSE \E answer \in AliasOutcomes :
               LET alt_symbols == _find_another_symbol(answer) IN
               /\ up_entrez' = up_entrez \o FirstMatch(alt_symbols, entrez_ids)
               /\ entrez_log' = Append(entrez_log,
                                       [gene |-> up, asked |-> TRUE, alts |-> alt_symbols])
               /\ events' = IF answer.ok THEN Append(events, "alias_lookup")
                            ELSE events \o <<"alias_lookup", "error:alias_lookup">>
    /\ eidx' = eidx + 1
    /\ UNCHANGED <<pc, exc, printed, up_genes, down_genes, entrez_ids, down_entrez,
                   notEntrez>>

\* The end of the first loop.
UpDone ==
    /\ pc = "transfer_up"
    /\ eidx > Len(up_genes)
    /\ pc' = "transfer_down"
    /\ eidx' = 1
    /\ UNCHANGED <<exc, events, printed, up_genes, down_genes, entrez_ids, up_entrez,
                   down_entrez, entrez_log, notEntrez>>

\* One pass of `for down in down_genes`.
MapDownGene ==
    /\ pc = "transfer_down"
    /\ eidx <= Len(down_genes)
    /\ LET down == down_genes[eidx] IN
       IF down \in DOMAIN entrez_ids
       THEN /\ down_entrez' = Append(down_entrez, entrez_ids[down])
            /\ entrez_log' = Append(entrez_log, [gene |-> down, asked |-> FALSE, alts |-> <<>>])
            /\ UNCHANGED events
       ELSE \E answer \in AliasOutcomes :
               LET alt_symbols == _find_another_symbol(answer) IN
               /\ down_entrez' = down_entrez \o FirstMatch(alt_symbols, entrez_ids)
               /\ entrez_log' = Append(entrez_log,
                                       [gene |-> down, asked |-> TRUE, alts |-> alt_symbols])
               /\ events' = IF answer.ok THEN Append(events, "alias_lookup")
                            ELSE events \o <<"alias_lookup", "error:alias_lookup">>
    /\ eidx' = eidx + 1
    /\ UNCHANGED <<pc, exc, printed, up_genes, down_genes, entrez_ids, up_entrez,
                   notEntrez>>

\* The end of the second loop: return up_entrez, down_entrez.
DownDone ==
    /\ pc = "transfer_down"
    /\ eidx > Len(down_genes)
    /\ pc' = "transferred"
    /\ UNCHANGED <<exc, events, printed, entrezVars, notEntrez>>

\* _transfer_to_entrez(up_genes, down_genes, entrez_ids).
InitEntrez ==
    /\ pc = "transfer_up"
    /\ exc = "none"
    /\ events = <<>>
    /\ printed = {}
    /\ up_genes \in SeqsUpTo(Symbols, MaxGenesIn)
    /\ down_genes \in SeqsUpTo(Symbols, MaxGenesIn)
    /\ entrez_ids \in RefMaps
    /\ up_entrez = <<>>
    /\ down_entrez = <<>>
    /\ eidx = 1
    /\ entrez_log = <<>>
    /\ InitCmapVars
    /\ InitDrugVars
    /\ InitRecoVars
    /\ InitMainVars
    /\ InitSigVars

NextEntrez ==
    \/ MapUpGene
    \/ UpDone
    \/ MapDownGene
    \/ DownDone

SpecEntrez == InitEntrez /\ [][NextEntrez]_vars

(***************************************************************************)
(* Claims about _transfer_to_entrez, checked under SpecEntrez              *)
(***************************************************************************)

\* The positions of alts that name a key of the reference map.
PanelHits(alts) == {j \in 1..Len(alts) : alts[j] \in DOMAIN entrez_ids}

\* What one handled gene contributes: its own id, else the id of the first
\* alternate that is a key of the reference map, else nothing.
Contribution(entry) ==
    IF entry.gene \in DOMAIN entrez_ids THEN <<entrez_ids[entry.gene]>>
    ELSE IF PanelHits(entry.alts) = {} THEN <<>>
    ELSE <<entrez_ids[entry.alts[CHOOSE j \in PanelHits(entry.alts) :
                                    \A k \in PanelHits(entry.alts) : j <= k]]>>

RECURSIVE Contributions(_, _)
Contributions(from, to) ==
    IF from > to THEN <<>>
    ELSE Contribution(entrez_log[from]) \o Contributions(from + 1, to)

\* Genes of the up list handled so far.
UpHandled == IF pc = "transfer_up" THEN eidx - 1 ELSE Len(up_genes)

RefValues == {entrez_ids[g] : g \in DOMAIN entrez_ids}

\* C11: each list is mapped in input order, every gene giving its own id,
\* else the id of the first alternate that is a key of the reference map,
\* else nothing; so at most one id per gene, every id a value of the
\* reference map, and the alias service is asked only for genes that miss
\* the direct lookup.
C11_PartialOrderedMap ==
    /\ up_entrez = Contributions(1, UpHandled)
    /\ down_entrez = Contributions(UpHandled + 1, Len(entrez_log))
    /\ \A i \in 1..Len(entrez_log) :
          /\ entrez_log[i].gene = (up_genes \o down_genes)[i]
          /\ entrez_log[i].asked <=> entrez_log[i].gene \notin DOMAIN entrez_ids
    /\ CountEv("alias_lookup")
          = Cardinality({i \in 1..Len(entrez_log) : entrez_log[i].asked})
    /\ Len(up_entrez) <= UpHandled
    /\ Len(down_entrez) <= Len(entrez_log) - UpHandled
    /\ \A i \in 1..Len(up_entrez) : up_entrez[i] \in RefValues
    /\ \A i \in 1..Len(down_entrez) : down_entrez[i] \in RefValues

\* Both lists are done; an up gene missed the panel and was mapped through
\* its second alternate of the panel's names, a down gene was dropped.
C11_Witness ==
    /\ pc = "transferred"
    /\ up_genes = <<"B", "C">>
    /\ down_genes = <<"C", "A">>
    /\ DOMAIN entrez_ids = {"B"}
    /\ up_entrez = <<"2", "2">>
    /\ down_entrez = <<>>
    /\ entrez_log[2].alts = <<"", "D", "B", "A">>

(***************************************************************************)
(* analyze.py: get_drug_list                                               *)
(***************************************************************************)

\* Bound on the number of rows of the summary table.
MaxDrugRows == 13

\* head(10)
TopK == 10

BRD == <<"B", "R", "D">>

NamePatterns == {"brd", "mixed"}

\* The identifier prefix of row i: under "mixed" the third row is
\* another kind of perturbagen, the fourth has a lower-case prefix.
NameOf(pat, i) ==
    IF pat = "mixed" /\ i = 3 THEN <<"X">>
    ELSE IF pat = "mixed" /\ i = 4 THEN <<"b", "r", "d">>
    ELSE BRD

TagPatterns == {"asc", "desc", "tied", "const", "lowx"}

\* The TAG score of row i, in tenths; "tied" and "lowx" repeat values, and
\* under "lowx" the rows that are no BRD compound score lowest.
TagOf(pat, i, name) ==
    CASE pat = "asc" -> i
      [] pat = "desc" -> 0 - i
      [] pat = "tied" -> i \div 3
      [] pat = "const" -> 0
      [] pat = "lowx" -> IF name = BRD THEN (i * 7) % 5 ELSE 0 - 50

\* A summary table of n rows with a unique index.
DrugTable(n, npat, tpat) ==
    [i \in 1..n |-> [id |-> [name |-> NameOf(npat, i), num |-> i],
                     tag |-> TagOf(tpat, i, NameOf(npat, i))]]

\* BRD-A: 0.5, BRD-B: -2.1, X-C: -5.0, BRD-D: 1.0
ExampleTable ==
    << [id |-> [name |-> BRD, num |-> 1], tag |-> 5],
       [id |-> [name |-> BRD, num |-> 2], tag |-> 0 - 21],
       [id |-> [name |-> <<"X">>, num |-> 3], tag |-> 0 - 50],
       [id |-> [name |-> BRD, num |-> 4], tag |-> 10] >>

SummaryTables ==
    {DrugTable(n, npat, tpat) :
        n \in 0..MaxDrugRows, npat \in NamePatterns, tpat \in TagPatterns}
    \cup {ExampleTable}

Ids(rows) == [i \in 1..Len(rows) |-> rows[i].id]

\* Mutation: the filter on the index is dropped.
OnlyBRD_All(rows) == rows

\* df1[df1.index.str.startswith('BRD')]
OnlyBRD(rows) == SelectSeq(rows, LAMBDA r : StartsWith(r.id.name, BRD))

RECURSIVE InsertByTag(_, _)
InsertByTag(sorted, r) ==
    IF sorted = <<>> THEN <<r>>
    ELSE IF r.tag < Head(sorted).tag THEN <<r>> \o sorted
    ELSE <<Head(sorted)>> \o InsertByTag(Tail(sorted), r)

RECURSIVE TagInsertionSort(_)
TagInsertionSort(rows) ==
    IF rows = <<>> THEN <<>>
    ELSE InsertByTag(TagInsertionSort(SubSeq(rows, 1, Len(rows) - 1)), rows[Len(rows)])

\* df1.sort_values('TAG', ascending=True): the default sort is unstable,
\* rows of equal TAG come out in the order of this build.
SortByTag(rows, ties) ==
    TagInsertionSort(IF ties = "kept" THEN rows ELSE Reverse(rows))

\* .head(10)
HeadK(rows) == SubSeq(rows, 1, Min(TopK, Len(rows)))

\* df1.loc[brd, 'TAG'] on a unique index
TagAt(rows, brd) == (CHOOSE r \in {rows[i] : i \in 1..Len(rows)} : r.id = brd).tag

notDrug == <<cmapVars, recoVars, mainVars, sigVars, entrezVars>>

\* Lines 121-127: filter, sort, head, index.to_list(); then
\* csn['row_metadata'], a TypeError when no cs_*.gct file was found.
SelectDrugs ==
    /\ pc = "get_drug_list"
    /\ drug_list' = Ids(HeadK(SortByTag(OnlyBRD(summary), tie_order)))
    /\ IF csn.is_none
       THEN /\ pc' = "raised"
            /\ exc' = "TypeError"
       ELSE /\ pc' = "names"
            /\ UNCHANGED exc
    /\ UNCHANGED <<events, printed, summary, csn, drug_dict, notDrug>>

\* One pass of `for brd in drug_list`: row.values[0] is an IndexError
\* when the row metadata has no row of that id.
NameDrug ==
    /\ pc = "names"
    /\ Len(drug_dict) < Len(drug_list)
    /\ LET brd == drug_list[Len(drug_dict) + 1] IN
       IF brd \in csn.ids
       THEN /\ drug_dict' = Append(drug_dict,
                                   [key |-> brd, name |-> brd.num,
                                    tag |-> TagAt(summary, brd)])
            /\ UNCHANGED <<pc, exc>>
       ELSE /\ pc' = "raised"
            /\ exc' = "IndexError"
            /\ UNCHANGED drug_dict
    /\ UNCHANGED <<events, printed, summary, csn, drug_list, notDrug>>

\* return drug_dict
ReturnDrugs ==
    /\ pc = "names"
    /\ Len(drug_dict) = Len(drug_list)
    /\ pc' = "listed"
    /\ UNCHANGED <<exc, events, printed, drugVars, notDrug>>

\* get_drug_list on an extracted archive.
InitDrug ==
    /\ pc = "get_drug_list"
    /\ exc = "none"
    /\ events = <<>>
    /\ printed = {}
    /\ summary \in SummaryTables
    /\ csn \in { [is_none |-> TRUE, ids |-> {}],
                 [is_none |-> FALSE, ids |-> {summary[i].id : i \in 1..Len(summary)}],
                 [is_none |-> FALSE, ids |-> {summary[i].id : i \in 2..Len(summary)}] }
    /\ drug_list = <<>>
    /\ drug_dict = <<>>
    /\ tie_order \in TieOrders
    /\ res = <<>>
    /\ run1 = <<>>
    /\ run2 = <<>>
    /\ per_file = <<>>
    /\ up_gene = <<>>
    /\ down_gene = <<>>
    /\ signature = <<>>
    /\ InitCmapVars
    /\ InitEntrezVars
    /\ InitRecoVars
    /\ InitMainVars

NextDrug ==
    \/ SelectDrugs
    \/ NameDrug
    \/ ReturnDrugs

SpecDrug == InitDrug /\ [][NextDrug]_vars

(***************************************************************************)
(* Claims about get_drug_list, checked under SpecDrug                      *)
(***************************************************************************)

\* The rows of the summary table whose identifier starts with "BRD".
BRDRows == {i \in 1..Len(summary) : StartsWith(summary[i].id.name, BRD)}

\* Row i comes before row j in the stable ascending order of TAG.
StablyBefore(i, j) ==
    \/ summary[i].tag < summary[j].tag
    \/ summary[i].tag = summary[j].tag /\ i < j

\* The position of BRD row i in the stable ascending order of TAG.
StableRank(i) == 1 + Cardinality({j \in BRDRows : StablyBefore(j, i)})

DrugKeys == [p \in 1..Len(drug_dict) |-> drug_dict[p].key]

ExpectedLen == Min(TopK, Cardinality(BRDRows))

\* C12 as stated: the keys are the first 10 (or all) BRD rows in stable
\* ascending order of TAG, rows of equal TAG in their table order.
C12_StableTopTen ==
    pc = "listed" =>
       /\ Len(drug_dict) = ExpectedLen
       /\ \A i \in BRDRows :
             StableRank(i) <= ExpectedLen => DrugKeys[StableRank(i)] = summary[i].id

\* The keys name p distinct BRD rows, as many as asked for.
KeyRows == {i \in BRDRows : \E p \in 1..Len(drug_dict) : DrugKeys[p] = summary[i].id}

\* C12: the returned keys are 10 (or all, if fewer) distinct BRD rows of
\* lowest TAG, in ascending order of TAG, each with its own TAG; no row
\* that is not a BRD row is among them (the order of rows of equal TAG,
\* and which of them make the cut, is left open).
C12_TopTenByTag ==
    pc = "listed" =>
       /\ Len(drug_dict) = ExpectedLen
       /\ Cardinality(KeyRows) = Len(drug_dict)
       /\ \A p \in 1..Len(drug_dict) :
             \E i \in BRDRows : /\ summary[i].id = DrugKeys[p]
                                /\ summary[i].tag = drug_dict[p].tag
       /\ \A p, q \in 1..Len(drug_dict) : p < q => drug_dict[p].tag <= drug_dict[q].tag
       /\ \A i \in BRDRows \ KeyRows :
             \A p \in 1..Len(drug_dict) : drug_dict[p].tag <= summary[i].tag
       /\ summary = ExampleTable => Ids(ExampleTable)[2] = DrugKeys[1]
                                    /\ Ids(ExampleTable)[1] = DrugKeys[2]
                                    /\ Ids(ExampleTable)[4] = DrugKeys[3]

\* A table with more than 10 BRD rows and lower-scoring rows of another
\* kind was cut to 10, and two rows of equal TAG came out against their
\* table order.
C12_Witness ==
    /\ pc = "listed"
    /\ Cardinality(BRDRows) > TopK
    /\ Len(drug_dict) = TopK
    /\ \E i \in (1..Len(summary)) \ BRDRows : summary[i].tag < drug_dict[1].tag
    /\ \E p, q \in 1..Len(drug_dict) :
          /\ p < q
          /\ drug_dict[p].tag = drug_dict[q].tag
          /\ drug_dict[p].key.num > drug_dict[q].key.num

(***************************************************************************)
(* Claims about the report of _save_to_file, checked under SpecReco        *)
(***************************************************************************)

\* The blocks of one section of the written report that are about candidate k.
BlocksOf(section, k) == {i \in 1..Len(section) : section[i].key = k}

\* A similar molecule the report leaves out: the candidate itself, one
\* without a clinical phase, one whose phase is below 2.
Excluded(m, val) ==
    \/ m.chembl_id = val.chembl_id
    \/ ~m.phase_known
    \/ m.max_phase < 2

\* The similarity list of the candidate is null, or all of it is excluded.
NoQualifying(val) ==
    \/ val.similar_molecules.is_none
    \/ \A j \in 1..Len(val.similar_molecules.mols) :
          Excluded(val.similar_molecules.mols[j], val)

\* Every retained candidate has one block in each section, at the same
\* 1-based index, in the order of retention.
OncePerSection ==
    LET a == report[1].abstract
        d == report[1].detail
    IN  /\ ReportKeys(a) = Retained(Len(searches))
        /\ ReportKeys(d) = Retained(Len(searches))
        /\ \A k \in Retained(Len(searches)) :
              /\ Cardinality(BlocksOf(a, k)) = 1
              /\ BlocksOf(d, k) = BlocksOf(a, k)
              /\ \A i \in BlocksOf(a, k) : a[i].idx = i /\ d[i].idx = i
        /\ \A i, j \in 1..Len(a) : i < j => a[i].key < a[j].key

\* C13 as stated: every retained candidate is once in each section at the
\* same index, and a candidate whose similar molecules are all excluded,
\* whose similarity list is null, or whose own clinical phase is missing
\* renders an empty tree block.
C13_EmptyTreeAsStated ==
    pc = "done" =>
       /\ OncePerSection
       /\ \A i \in 1..Len(results) :
             (NoQualifying(results[i]) \/ results[i].max_phase = None)
                => /\ report[1].abstract[i].tree = <<>>
                   /\ report[1].detail[i].tree = <<>>

\* C13: every retained candidate is once in each section at the same
\* index; a candidate whose similar molecules are all excluded or whose
\* similarity list is null renders an empty tree block in both sections;
\* a candidate whose own clinical phase is missing is listed in both
\* sections too, with no similar molecule in its detail block.
C13_OncePerSection ==
    pc = "done" =>
       /\ OncePerSection
       /\ \A i \in 1..Len(results) :
             /\ NoQualifying(results[i])
                   => /\ report[1].abstract[i].tree = <<>>
                      /\ report[1].detail[i].tree = <<>>
             /\ results[i].max_phase = None => report[1].detail[i].tree = <<>>

\* A report of three candidates: one with a null similarity list, one
\* whose similar molecules are all excluded, one without a clinical phase
\* whose abstract tree is not empty.
C13_Witness ==
    /\ pc = "done"
    /\ Len(results) = 3
    /\ \E i \in 1..3 : results[i].similar_molecules.is_none
    /\ \E i \in 1..3 : /\ ~results[i].similar_molecules.is_none
                       /\ results[i].similar_molecules.mols # <<>>
                       /\ NoQualifying(results[i])
    /\ \E i \in 1..3 : /\ results[i].max_phase = None
                       /\ report[1].abstract[i].tree # <<>>

\* The similar molecules of a candidate that are not excluded, in list order.
RECURSIVE QualifyingIds(_, _)
QualifyingIds(mols, val) ==
    IF mols = <<>> THEN <<>>
    ELSE (IF Excluded(Head(mols), val) THEN <<>> ELSE <<Head(mols).chembl_id>>)
         \o QualifyingIds(Tail(mols), val)

\* C17: under every retained candidate, whatever its own clinical phase,
\* the detail section lists exactly the qualifying similar molecules of
\* its abstract tree, in the same order.
C17_DetailMatchesAbstract ==
    pc = "done" =>
       \A i \in 1..Len(results) :
          /\ report[1].abstract[i].tree
                = QualifyingIds(results[i].similar_molecules.mols, results[i])
          /\ report[1].detail[i].tree = report[1].abstract[i].tree

(***************************************************************************)
(* Claims about the polling loop, checked under SpecCmap                   *)
(***************************************************************************)

\* The status requests answered "completed".
CompletedAt == {i \in 1..Len(statuses) : statuses[i] = "completed"}

RowOf(g) == res[CHOOSE i \in 1..Len(res) : res[i].gene = g]

\* The rows of the genes of a returned list, in the order of the list.
RECURSIVE RowsOf(_)
RowsOf(out) == IF out = <<>> THEN <<>> ELSE <<RowOf(Head(out))>> \o RowsOf(Tail(out))

IsSignificant(r) == ~r.padj_nan /\ r.padj < PadjCut

\* padj of row r is not above padj of row q; an undefined padj counts as highest.
NotAbove(r, q) == q.padj_nan \/ (~r.padj_nan /\ r.padj <= q.padj)

\* rows holds, without repeats and in ascending order of padj, the
\* Min(N, |from|) rows of lowest padj of the rows from.
LowestOf(rows, from) ==
    /\ Len(rows) = Min(N, Len(from))
    /\ \A i \in 1..Len(rows) : \E k \in 1..Len(from) : from[k] = rows[i]
    /\ \A i, j \in 1..Len(rows) : i < j => rows[i].gene # rows[j].gene
    /\ \A i \in 1..(Len(rows) - 1) : NotAbove(rows[i], rows[i + 1])
    /\ \A k \in 1..Len(from) :
          (\A i \in 1..Len(rows) : rows[i] # from[k])
             => Len(rows) > 0 /\ NotAbove(rows[Len(rows)], from[k])

\* The returned rows of one direction against the rows of that direction
\* of the whole table (pool) and the significant ones among them (sig).
SelectionOk(rows, pool, sig) ==
    IF Len(sig) >= N
    THEN LowestOf(rows, sig)
    ELSE /\ LowestOf(rows, pool)
         /\ \A k \in 1..Len(sig) : \E i \in 1..Len(rows) : rows[i] = sig[k]
         /\ \A i \in 1..(Len(rows) - 1) :
               IsSignificant(rows[i + 1]) => IsSignificant(rows[i])

\* The rows of the analysed table whose log2FoldChange has the sign dir.
Pool(dir) == SelectSeq(res, LAMBDA r : r.lfc = dir)

SigPool(dir) == SelectSeq(Pool(dir), IsSignificant)

\* C16: for each direction, with at least 30 significant genes the output
\* is the 30 of them of lowest padj in ascending order; otherwise it is the
\* up-to-30 genes of lowest padj of that direction of the whole table, with
\* every significant gene present and before every other; a gene whose
\* log2FoldChange is 0 is in neither list.
C16_SelectionPerDirection ==
    run1 # <<>> =>
       /\ SelectionOk(RowsOf(run1[1].up), Pool(1), SigPool(1))
       /\ SelectionOk(RowsOf(run1[1].down), Pool(-1), SigPool(-1))
       /\ \A i \in 1..Len(res) :
             res[i].lfc = 0 =>
                res[i].gene \notin Members(run1[1].up) \cup Members(run1[1].down)

\* A table with more than 30 up genes, fewer than 30 of them significant:
\* the up list was filled to 30 from the whole table; the down list holds
\* a gene without padj after a significant one.
C16_Witness ==
    /\ run1 # <<>>
    /\ Len(Pool(1)) > N
    /\ Len(SigPool(1)) \in 1..(N - 1)
    /\ Len(run1[1].up) = N
    /\ ~IsSignificant(RowOf(run1[1].up[N]))
    /\ Len(run1[1].down) > 1
    /\ IsSignificant(RowOf(run1[1].down[1]))
    /\ RowOf(Last(run1[1].down)).padj_nan

(***************************************************************************)
(* The requests to external services outside the polling loop:             *)
(* cmap_analysis and make_result                                           *)
(***************************************************************************)

InitServices == InitCmap \/ InitReco

NextServices == NextCmap \/ NextReco

SpecServices == InitServices /\ [][NextServices]_vars

\* The requests outside the polling loop, by the service asked.
Services == {"ref_download", "alias_lookup", "job_fetch", "archive_download",
             "name_search", "similarity_search"}

ErrorOf(service) == "error:" \o service

\* Some request to the service was answered with an HTTP error.
Failed(service) == CountEv(ErrorOf(service)) > 0

\* The last request was to the service and was answered with an HTTP error.
JustFailed(service) == events # <<>> /\ Last(events) = ErrorOf(service)

\* C15 as stated: an HTTP error of any of the six services is raised at
\* once and ends the pipeline; none is swallowed or turned into a missing
\* result.
C15_EveryErrorRaised ==
    \A service \in Services :
       Failed(service) => /\ JustFailed(service)
                          /\ pc = "raised"
                          /\ exc = "HTTPError"

\* C15: an HTTP error of the reference-panel download or of the archive
\* download is raised at once and ends the pipeline; one of the alias
\* lookup, the name search or the similarity search is never raised: it
\* is turned into an empty or null result and the run goes on (after a
\* failed name search, into the KeyError of the similarity phase); the
\* job-record fetch does not look at the HTTP status and ends in the
\* error its parsing raises; no request is repeated.
C15_ErrorsByService ==
    /\ \A service \in {"ref_download", "archive_download"} :
          Failed(service) => /\ JustFailed(service)
                             /\ pc = "raised"
                             /\ exc = "HTTPError"
    /\ JustFailed("alias_lookup") => pc = "submit" /\ exc = "none"
    /\ (Failed("name_search") \/ Failed("similarity_search")) =>
          /\ exc \in {"none", "KeyError"}
          /\ pc = "raised" <=> exc = "KeyError"
    /\ JustFailed("name_search") =>
          /\ pc \in {"resolve", "similar", "raised"}
          /\ "Error fetching data" \in printed
          /\ Last(searches).kind = "error"
          /\ Len(searches) \notin KeySet(results)
    /\ JustFailed("similarity_search") =>
          /\ pc \in {"similar", "raised"}
          /\ "Error fetching similar" \in printed
          /\ \E i \in 1..Len(results) : /\ Truthy(results[i].smiles)
                                        /\ results[i].sim_set
                                        /\ results[i].similar_molecules.is_none
    /\ Failed("job_fetch") =>
          /\ JustFailed("job_fetch")
          /\ pc = "raised"
          /\ exc \in {"JSONDecodeError", "UnboundLocalError"}
    /\ \A service \in {"ref_download", "alias_lookup", "job_fetch", "archive_download"} :
          CountEv(service) <= 1
    /\ CountEv("name_search") = Len(searches)
    /\ CountEv("similarity_search") <= sidx - 1

\* The alias lookup failed and the run went on to submit, poll and fetch;
\* then the archive download failed and the run ended there.
C15_Witness ==
    /\ Failed("alias_lookup")
    /\ CountEv("job_fetch") = 1
    /\ JustFailed("archive_download")
    /\ pc = "raised"
    /\ exc = "HTTPError"

====
